---- MODULE Spec2Model ----
(***************************************************************************)
(* State-machine model of the WeatherApp widget of src/script.js.          *)
(*                                                                         *)
(* The page is the state: which required elements exist, which of them     *)
(* carry the class 'hidden', the text of the error message, the text       *)
(* fields of the current-conditions region and the children of the         *)
(* forecast container.  The pending work of the event loop is the queue of *)
(* 1000 ms timers (one per provider call) and the set of outstanding       *)
(* geolocation position requests.  Each handler runs to its next await as  *)
(* one atomic step, as on the single UI thread.                            *)
(*                                                                         *)
(* Strings that the code converts (trim, toLowerCase, concatenation) are   *)
(* sequences of one-character strings; strings it only copies are plain.   *)
(***************************************************************************)
EXTENDS Integers, Sequences, FiniteSets, TLC

\* ------------------------------------------------------------------ bounds
\* user actions (clicks, Enter) explored after startup
MaxActions == 2
\* Math.random() is k / RandDenom for k in 0 .. RandDenom - 1
RandDenom == 2
\* required page elements that may be absent from the markup (SpecStartup)
MaxMissing == 1
\* Math.random() is k / DrawDenom for k in 0 .. DrawDenom - 1 (SpecForecast);
\* a multiple of 15 and of 10, so that every value of both floors is drawn
DrawDenom == 30

\* ----------------------------------------------------------------- strings
NewYork == <<"N", "e", "w", " ", "Y", "o", "r", "k">>
London == <<"L", "o", "n", "d", "o", "n">>
Tokyo == <<"T", "o", "k", "y", "o">>
YourLocation == <<"Y", "o", "u", "r", " ", "L", "o", "c", "a", "t", "i", "o", "n">>
Unknown == <<"U", "n", "k", "n", "o", "w", "n">>

UpperCase == <<"A", "B", "C", "D", "E", "F", "G", "H", "I", "J", "K", "L", "M",
               "N", "O", "P", "Q", "R", "S", "T", "U", "V", "W", "X", "Y", "Z">>
LowerCase == <<"a", "b", "c", "d", "e", "f", "g", "h", "i", "j", "k", "l", "m",
               "n", "o", "p", "q", "r", "s", "t", "u", "v", "w", "x", "y", "z">>
WhiteSpace == {" ", "\t", "\n"}

\* mutant of toLowerCase: the case is kept as typed
caseKept(s) == s

\* String.prototype.toLowerCase, character by character
toLowerCase(s) ==
    [i \in 1..Len(s) |->
        IF \E k \in 1..26 : UpperCase[k] = s[i]
        THEN LowerCase[CHOOSE k \in 1..26 : UpperCase[k] = s[i]]
        ELSE s[i]]

RECURSIVE trimStart(_)
trimStart(s) ==
    IF s # <<>> /\ Head(s) \in WhiteSpace THEN trimStart(Tail(s)) ELSE s

RECURSIVE trimEnd(_)
trimEnd(s) ==
    IF s # <<>> /\ s[Len(s)] \in WhiteSpace
    THEN trimEnd(SubSeq(s, 1, Len(s) - 1))
    ELSE s

\* mutant of trim: the input is used as typed
untrimmed(s) == s

\* String.prototype.trim
trim(s) == trimEnd(trimStart(s))

\* values the user may have typed into cityInput when a search is triggered:
\* empty, blank, fixture keys in other case or padded, an unknown name, and
\* names of properties of Object.prototype
CityInputs ==
    { <<>>,
      <<" ", " ">>,
      <<"L", "O", "N", "D", "O", "N">>,
      <<" ", "t", "o", "k", "y", "o", " ">>,
      <<"P", "a", "r", "i", "s">>,
      <<"c", "o", "n", "s", "t", "r", "u", "c", "t", "o", "r">>,
      <<"t", "o", "S", "t", "r", "i", "n", "g">> }

\* the property names of the object literal cities, as written
FixtureKeys ==
    { <<"n", "e", "w", " ", "y", "o", "r", "k">>,
      <<"l", "o", "n", "d", "o", "n">>,
      <<"t", "o", "k", "y", "o">> }

\* the spellings of s that differ from it in the case of letters only
RECURSIVE CaseVariants(_)
CaseVariants(s) ==
    IF s = <<>> THEN { <<>> }
    ELSE LET c == Head(s)
             C == IF \E k \in 1..26 : LowerCase[k] = c
                  THEN UpperCase[CHOOSE k \in 1..26 : LowerCase[k] = c]
                  ELSE c
         IN  { <<x>> \o rest : x \in {c, C}, rest \in CaseVariants(Tail(s)) }

\* values the user may have typed to look a fixture up: every spelling of
\* every fixture key
LookupInputs == UNION { CaseVariants(k) : k \in FixtureKeys }

\* positions the platform may report, in tenths of a degree
Positions == { <<407, -740>>, <<515, -1>> }

\* ------------------------------------------------------------ Math.random
\* A run of Math.random() calls: the i-th call (from 0) of the run that
\* starts at seed returns random(seed, i) / RandDenom, a value of [0, 1).
Seeds == 0..(RandDenom - 1)
random(seed, i) == (seed + i) % RandDenom

\* Math.floor(Math.random() * n) + base
floorScaled(r, denom, n, base) == ((r * n) \div denom) + base

\* Math.floor(Math.random() * n) + base at call i of the run
floorRandom(seed, i, n, base) == floorScaled(random(seed, i), RandDenom, n, base)

\* ------------------------------------------------------------- mock data
\* the value undefined: no record and no non-empty array equals it
Undefined == <<>>

days == <<"Today", "Tomorrow", "Day 3", "Day 4", "Day 5">>
descriptions == <<"sunny", "partly cloudy", "cloudy", "light rain", "clear">>
icons == <<"fas fa-sun", "fas fa-cloud-sun", "fas fa-cloud", "fas fa-cloud-rain", "fas fa-sun">>

\* mutant of forecastEntry: low is computed with the range and base of high
forecastEntryLowAsHigh(n, rHigh, rLow, denom) ==
    [day |-> days[n],
     high |-> floorScaled(rHigh, denom, 15, 20),
     low |-> floorScaled(rLow, denom, 15, 20),
     description |-> descriptions[((n - 1) % Len(descriptions)) + 1],
     icon |-> icons[((n - 1) % Len(icons)) + 1]]

\* one element of days.map(...): the entry of day n (from 1) whose two
\* Math.random() calls returned rHigh / denom and rLow / denom
forecastEntry(n, rHigh, rLow, denom) ==
    [day |-> days[n],
     high |-> floorScaled(rHigh, denom, 15, 20),
     low |-> floorScaled(rLow, denom, 10, 10),
     description |-> descriptions[((n - 1) % Len(descriptions)) + 1],
     icon |-> icons[((n - 1) % Len(icons)) + 1]]

\* mutant of generateMockForecastFrom: the last day is left out
generateMockForecastFourDays(draws, denom) ==
    [n \in 1..(Len(days) - 1) |->
        forecastEntry(n, draws[n][1], draws[n][2], denom)]

\* generateMockForecast when the Math.random() calls of entry n return
\* draws[n][1] / denom and draws[n][2] / denom
generateMockForecastFrom(draws, denom) ==
    [n \in 1..Len(days) |->
        forecastEntry(n, draws[n][1], draws[n][2], denom)]

\* generateMockForecast in the run of Math.random() calls that starts at
\* seed, of which it makes calls at, at + 1, ...
generateMockForecast(seed, at) ==
    generateMockForecastFrom(
        [n \in 1..Len(days) |->
            <<random(seed, at + 2 * (n - 1)), random(seed, at + 2 * (n - 1) + 1)>>],
        RandDenom)

\* the own keys of the object literal cities
CityKeys == { toLowerCase(NewYork), toLowerCase(London), toLowerCase(Tokyo) }

\* the fixtures of the object literal cities; each forecast is generated
\* when the literal is evaluated, in source order
cities(seed) ==
    [k \in CityKeys |->
        IF k = toLowerCase(NewYork) THEN
            [current |->
                [city |-> NewYork, country |-> <<"U", "S">>, temperature |-> 22,
                 feelsLike |-> 25, description |-> "partly cloudy", humidity |-> 65,
                 windSpeed |-> 12, pressure |-> 1013, visibility |-> 10,
                 uvIndex |-> 6, cloudiness |-> 40, icon |-> "fas fa-cloud-sun"],
             forecast |-> generateMockForecast(seed, 0)]
        ELSE IF k = toLowerCase(London) THEN
            [current |->
                [city |-> London, country |-> <<"U", "K">>, temperature |-> 15,
                 feelsLike |-> 13, description |-> "light rain", humidity |-> 80,
                 windSpeed |-> 8, pressure |-> 1008, visibility |-> 8,
                 uvIndex |-> 3, cloudiness |-> 75, icon |-> "fas fa-cloud-rain"],
             forecast |-> generateMockForecast(seed, 10)]
        ELSE
            [current |->
                [city |-> Tokyo, country |-> <<"J", "P">>, temperature |-> 28,
                 feelsLike |-> 32, description |-> "sunny", humidity |-> 55,
                 windSpeed |-> 6, pressure |-> 1020, visibility |-> 15,
                 uvIndex |-> 8, cloudiness |-> 10, icon |-> "fas fa-sun"],
             forecast |-> generateMockForecast(seed, 20)]]

\* property names every object literal inherits from Object.prototype; their
\* values are functions or objects, so cities[name] is truthy for each
InheritedKeys ==
    { <<"c", "o", "n", "s", "t", "r", "u", "c", "t", "o", "r">>,
      <<"_", "_", "p", "r", "o", "t", "o", "_", "_">>,
      <<"t", "o", "S", "t", "r", "i", "n", "g">>,
      <<"v", "a", "l", "u", "e", "O", "f">>,
      <<"h", "a", "s", "O", "w", "n", "P", "r", "o", "p", "e", "r", "t", "y">>,
      <<"i", "s", "P", "r", "o", "t", "o", "t", "y", "p", "e", "O", "f">>,
      <<"t", "o", "L", "o", "c", "a", "l", "e", "S", "t", "r", "i", "n", "g">> }

\* the value simulateWeatherAPI resolves with, after its delay.  A key found
\* on the prototype chain yields a function or object that has neither a
\* current nor a forecast property.
simulateWeatherAPI(city, seed) ==
    LET cityKey == toLowerCase(city) IN
    IF cityKey \in CityKeys THEN cities(seed)[cityKey]
    ELSE IF cityKey \in InheritedKeys THEN
        [current |-> Undefined, forecast |-> Undefined]
    ELSE
        [current |->
            [city |-> city, country |-> Unknown,
             temperature |-> floorRandom(seed, 30, 30, 5),
             feelsLike |-> floorRandom(seed, 31, 30, 5),
             description |-> "clear sky",
             humidity |-> floorRandom(seed, 32, 40, 40),
             windSpeed |-> floorRandom(seed, 33, 15, 5),
             pressure |-> floorRandom(seed, 34, 50, 1000),
             visibility |-> floorRandom(seed, 35, 10, 5),
             uvIndex |-> floorRandom(seed, 36, 10, 1),
             cloudiness |-> floorRandom(seed, 37, 60, 20),
             icon |-> "fas fa-sun"],
         forecast |-> generateMockForecast(seed, 38)]

\* the value simulateWeatherAPIByCoords resolves with; lat and lon are unused
simulateWeatherAPIByCoords(lat, lon, seed) ==
    [current |->
        [city |-> YourLocation, country |-> <<>>, temperature |-> 20,
         feelsLike |-> 22, description |-> "clear sky", humidity |-> 60,
         windSpeed |-> 10, pressure |-> 1015, visibility |-> 12,
         uvIndex |-> 5, cloudiness |-> 20, icon |-> "fas fa-sun"],
     forecast |-> generateMockForecast(seed, 0)]

\* ------------------------------------------------------------------ state
VARIABLES
    present,            \* ids of the required elements the markup contains
    geolocation,        \* whether navigator.geolocation is truthy
    app,                \* "none", "constructed", or "aborted" (constructor threw)
    listeners,          \* elements carrying a listener added by the widget
    hidden,             \* elements whose classList contains 'hidden'
    errorMessage,       \* textContent of #errorMessage
    fields,             \* text of the current-conditions elements
    forecastContainer,  \* children of #forecastContainer
    timers,             \* provider calls awaiting their 1000 ms timer, oldest first
    positions,          \* getCurrentPosition requests awaiting a callback
    nextId,             \* number of user actions handled so far, plus one
    calls,              \* per action (0 is the startup load): provider calls started
    settled,            \* requests that ran to their end, in order of completion
    overlap,            \* a request was started while another was pending
    event,              \* what the last step was: its kind, the action it belongs
                        \* to, how it ended, the city it was about, and for a user
                        \* action whether the error region was shown when it was made
    lastAction          \* the user action triggered last: its kind, how its handler
                        \* ended, and the city it was about

vars == <<present, geolocation, app, listeners, hidden, errorMessage, fields,
          forecastContainer, timers, positions, nextId, calls, settled, overlap,
          event, lastAction>>

RequiredElements ==
    {"cityInput", "searchBtn", "locationBtn", "loading", "error", "errorMessage",
     "currentWeather", "forecast", "forecastContainer"}

\* the elements whose class 'hidden' the widget toggles
Regions == {"loading", "error", "currentWeather", "forecast"}

EmptyInput == "Please enter a city name"
NoGeolocation == "Geolocation is not supported by this browser"
NoPosition == "Unable to get your location. Please search manually."
CityNotFound == "City not found. Please check the spelling and try again."
NoCoordsData == "Unable to fetch weather data for your location."

\* the text fields before the first render: whatever the markup holds
NoFields == [cityName |-> <<>>]

\* The page as a handler sees and changes it.  threw records that a
\* TypeError was raised (a property of null or undefined was read): every
\* later statement of the same block is skipped.
Dom ==
    [hidden |-> hidden, errorMessage |-> errorMessage, fields |-> fields,
     forecastContainer |-> forecastContainer, threw |-> FALSE]

throw(d) == [d EXCEPT !.threw = TRUE]
caught(d) == [d EXCEPT !.threw = FALSE]

\* this.<el>.classList.add('hidden'); this.<el> is null when el is absent
classListAdd(d, el) ==
    IF d.threw THEN d
    ELSE IF el \notin present THEN throw(d)
    ELSE [d EXCEPT !.hidden = @ \cup {el}]

\* this.<el>.classList.remove('hidden')
classListRemove(d, el) ==
    IF d.threw THEN d
    ELSE IF el \notin present THEN throw(d)
    ELSE [d EXCEPT !.hidden = @ \ {el}]

\* mutant of showLoading: the error region is left as it is
showLoadingKeepsError(d) ==
    classListAdd(
        classListAdd(
            classListRemove(d, "loading"),
            "currentWeather"),
        "forecast")

showLoading(d) ==
    classListAdd(
        classListAdd(
            classListAdd(
                classListRemove(d, "loading"),
                "error"),
            "currentWeather"),
        "forecast")

hideLoading(d) == classListAdd(d, "loading")

\* this.errorMessage.textContent = message
setErrorMessage(d, message) ==
    IF d.threw THEN d
    ELSE IF "errorMessage" \notin present THEN throw(d)
    ELSE [d EXCEPT !.errorMessage = message]

showError(d, message) ==
    classListAdd(
        classListAdd(
            classListRemove(
                setErrorMessage(d, message),
                "error"),
            "currentWeather"),
        "forecast")

\* mutant of cityLabel: the separator is written whatever the country is
cityLabelAlwaysSeparated(data) ==
    data.city \o <<",", " ">> \o data.country

\* `${data.city}${data.country ? ', ' + data.country : ''}`
cityLabel(data) ==
    data.city \o (IF data.country # <<>> THEN <<",", " ">> \o data.country ELSE <<>>)

\* reading data.city of undefined throws before anything is written
displayCurrentWeather(d, data) ==
    IF d.threw THEN d
    ELSE IF data = Undefined THEN throw(d)
    ELSE classListRemove(
            [d EXCEPT !.fields =
                [cityName |-> cityLabel(data),
                 weatherDate |-> "toLocaleDateString",
                 currentTemp |-> <<data.temperature, "C">>,
                 feelsLike |-> <<data.feelsLike, "C">>,
                 weatherDescription |-> data.description,
                 humidity |-> <<data.humidity, "%">>,
                 windSpeed |-> <<data.windSpeed, " km/h">>,
                 pressure |-> <<data.pressure, " hPa">>,
                 visibility |-> <<data.visibility, " km">>,
                 uvIndex |-> data.uvIndex,
                 cloudiness |-> <<data.cloudiness, "%">>,
                 weatherIconMain |-> data.icon]],
            "currentWeather")

\* the div.forecast-item built from one forecast entry
forecastItem(item) ==
    [className |-> "forecast-item", day |-> item.day, icon |-> item.icon,
     high |-> item.high, low |-> item.low, description |-> item.description]

\* mutant of clearForecastContainer: the children are kept
keepForecastContainer(d) ==
    IF d.threw THEN d
    ELSE IF "forecastContainer" \notin present THEN throw(d)
    ELSE d

\* this.forecastContainer.innerHTML = ''
clearForecastContainer(d) ==
    IF d.threw THEN d
    ELSE IF "forecastContainer" \notin present THEN throw(d)
    ELSE [d EXCEPT !.forecastContainer = <<>>]

\* forecastData.forEach(item => ... appendChild(forecastItem))
appendForecastItems(d, forecastData) ==
    IF d.threw THEN d
    ELSE IF forecastData = Undefined THEN throw(d)
    ELSE [d EXCEPT !.forecastContainer =
            @ \o [n \in 1..Len(forecastData) |-> forecastItem(forecastData[n])]]

displayForecast(d, forecastData) ==
    classListRemove(
        appendForecastItems(clearForecastContainer(d), forecastData),
        "forecast")

\* ------------------------------------------------------------- handlers
\* What a handler leaves behind when it returns or reaches its await: the
\* page, the timers and position requests it started, and how it ended
\* ("threw": the exception left the handler, as an uncaught error or an
\* unhandled rejection).
Result(d, newTimers, newPositions, outcome, city) ==
    [dom |-> d, timers |-> newTimers, positions |-> newPositions,
     outcome |-> IF d.threw THEN "threw" ELSE outcome, city |-> city]

\* getWeatherData up to its await: showLoading is outside the try block, then
\* simulateWeatherAPI starts its timer
getWeatherData(d, id, city) ==
    LET l == showLoading(d) IN
    Result(l,
           IF l.threw THEN <<>>
           ELSE <<[id |-> id, op |-> "name", city |-> city, lat |-> 0, lon |-> 0]>>,
           {}, "started", city)

\* a fetch from its await to its end, the provider having resolved with
\* weatherData: the rest of the try block, or the catch block with the
\* fetch's message
fetchResumed(d, weatherData, message, city) ==
    LET try == hideLoading(
                   displayForecast(
                       displayCurrentWeather(d, weatherData.current),
                       weatherData.forecast))
    IN  IF try.threw
        THEN Result(showError(hideLoading(caught(try)), message),
                    <<>>, {}, "error", city)
        ELSE Result(try, <<>>, {}, "success", city)

\* mutant of resumeGetWeatherData: the catch block does not hide the loading
\* indicator
resumeGetWeatherDataStillLoading(d, city, seed) ==
    LET weatherData == simulateWeatherAPI(city, seed)
        try == hideLoading(
                   displayForecast(
                       displayCurrentWeather(d, weatherData.current),
                       weatherData.forecast))
    IN  IF try.threw
        THEN Result(showError(caught(try), CityNotFound), <<>>, {}, "error", city)
        ELSE Result(try, <<>>, {}, "success", city)

\* getWeatherData from its await to its end
resumeGetWeatherData(d, city, seed) ==
    fetchResumed(d, simulateWeatherAPI(city, seed), CityNotFound, city)

\* getWeatherByCoords up to its await
getWeatherByCoords(d, id, lat, lon) ==
    LET l == showLoading(d) IN
    Result(l,
           IF l.threw THEN <<>>
           ELSE <<[id |-> id, op |-> "coords", city |-> <<>>, lat |-> lat, lon |-> lon]>>,
           {}, "started", <<>>)

\* mutant of resumeGetWeatherByCoords: the try block does not hide the
\* loading indicator
resumeGetWeatherByCoordsStillLoading(d, lat, lon, seed) ==
    LET weatherData == simulateWeatherAPIByCoords(lat, lon, seed)
        try == displayForecast(
                   displayCurrentWeather(d, weatherData.current),
                   weatherData.forecast)
    IN  IF try.threw
        THEN Result(showError(hideLoading(caught(try)), NoCoordsData),
                    <<>>, {}, "error", <<>>)
        ELSE Result(try, <<>>, {}, "success", <<>>)

\* getWeatherByCoords from its await to its end
resumeGetWeatherByCoords(d, lat, lon, seed) ==
    fetchResumed(d, simulateWeatherAPIByCoords(lat, lon, seed), NoCoordsData, <<>>)

\* searchWeather with value in the input box; this.cityInput is null when
\* the element is absent
searchWeather(d, id, value) ==
    IF "cityInput" \notin present THEN Result(throw(d), <<>>, {}, "threw", <<>>)
    ELSE LET city == trim(value) IN
         IF city = <<>>
         THEN Result(showError(d, EmptyInput), <<>>, {}, "validation", city)
         ELSE getWeatherData(d, id, city)

\* mutant of getCurrentLocation: the capability is tested after showLoading
getCurrentLocationLoadingFirst(d, id) ==
    LET l == showLoading(d) IN
    IF ~geolocation
    THEN Result(showError(l, NoGeolocation), <<>>, {}, "unsupported", <<>>)
    ELSE Result(l, <<>>, IF l.threw THEN {} ELSE {id}, "started", <<>>)

\* getCurrentLocation up to the call of getCurrentPosition
getCurrentLocation(d, id) ==
    IF ~geolocation
    THEN Result(showError(d, NoGeolocation), <<>>, {}, "unsupported", <<>>)
    ELSE LET l == showLoading(d) IN
         Result(l, <<>>, IF l.threw THEN {} ELSE {id}, "started", <<>>)

\* mutant of positionError: the loading indicator is left on
positionErrorStillLoading(d) ==
    Result(showError(d, NoPosition), <<>>, {}, "error", <<>>)

\* the error callback of getCurrentPosition
positionError(d) ==
    Result(showError(hideLoading(d), NoPosition), <<>>, {}, "error", <<>>)

\* mutant of attachEventListeners: an absent element is skipped
attachEventListenersIfPresent ==
    [listeners |-> {"searchBtn", "cityInput", "locationBtn"} \cap present,
     threw |-> FALSE]

\* the listeners attachEventListeners has added when it returns or throws
\* (addEventListener of null)
attachEventListeners ==
    IF "searchBtn" \notin present THEN [listeners |-> {}, threw |-> TRUE]
    ELSE IF "cityInput" \notin present
    THEN [listeners |-> {"searchBtn"}, threw |-> TRUE]
    ELSE IF "locationBtn" \notin present
    THEN [listeners |-> {"searchBtn", "cityInput"}, threw |-> TRUE]
    ELSE [listeners |-> {"searchBtn", "cityInput", "locationBtn"}, threw |-> FALSE]

\* new WeatherApp(): initializeElements never throws, attachEventListeners
\* may, and loadDefaultWeather is an async call whose rejection is not the
\* constructor's; the startup load is action 0
constructor(d) ==
    LET a == attachEventListeners IN
    IF a.threw
    THEN [app |-> "aborted", listeners |-> a.listeners,
          load |-> Result(d, <<>>, {}, "aborted", <<>>)]
    ELSE [app |-> "constructed", listeners |-> a.listeners,
          load |-> getWeatherData(d, 0, NewYork)]

\* ---------------------------------------------------------------- actions
\* el is on the page and does not carry the class 'hidden'
Visible(el) == el \in present /\ el \notin hidden

LoadingShown == Visible("loading")
ErrorShown == Visible("error")

Commit(d) ==
    /\ hidden' = d.hidden
    /\ errorMessage' = d.errorMessage
    /\ fields' = d.fields
    /\ forecastContainer' = d.forecastContainer

\* a handler run for action id has ended with r
Handled(type, id, r) ==
    /\ Commit(r.dom)
    /\ timers' = timers \o r.timers
    /\ calls' = [calls EXCEPT ![id] = @ + Len(r.timers)]
    /\ event' = [type |-> type, id |-> id, outcome |-> r.outcome, city |-> r.city,
                 errorWas |-> (type \in {"search", "locate"} /\ ErrorShown)]

NoCalls == [id \in 0..MaxActions |-> 0]

\* no listener has run yet
NoAction == [type |-> "none", outcome |-> "none", city |-> <<>>]

\* the page as the markup gives it, before DOMContentLoaded
Markup(page, classes, geo) ==
    /\ present = page
    /\ geolocation = geo
    /\ app = "none"
    /\ listeners = {}
    /\ hidden = classes
    /\ errorMessage = ""
    /\ fields = NoFields
    /\ forecastContainer = <<>>
    /\ timers = <<>>
    /\ positions = {}
    /\ nextId = 1
    /\ calls = NoCalls
    /\ settled = <<>>
    /\ overlap = FALSE
    /\ event = [type |-> "none", id |-> 0, outcome |-> "none", city |-> <<>>,
                errorWas |-> FALSE]
    /\ lastAction = NoAction

Pages == { page \in SUBSET RequiredElements :
             Cardinality(RequiredElements \ page) <= MaxMissing }

InitStartup ==
    \E page \in Pages, geo \in BOOLEAN :
        \E classes \in SUBSET (Regions \cap page) :
            Markup(page, classes, geo)

\* the DOMContentLoaded listener: new WeatherApp()
Construct ==
    /\ app = "none"
    /\ LET c == constructor(Dom) IN
        /\ app' = c.app
        /\ listeners' = c.listeners
        /\ Handled("construct", 0, c.load)
    /\ UNCHANGED <<present, geolocation, positions, nextId, settled, overlap,
                   lastAction>>

\* the state new WeatherApp() leaves on a page that has every required
\* element, whatever classes the markup gave the regions
Init ==
    /\ present = RequiredElements
    /\ geolocation \in BOOLEAN
    /\ LET c == constructor([hidden |-> {}, errorMessage |-> "", fields |-> NoFields,
                             forecastContainer |-> <<>>, threw |-> FALSE])
       IN /\ app = c.app
          /\ listeners = c.listeners
          /\ hidden = c.load.dom.hidden
          /\ errorMessage = c.load.dom.errorMessage
          /\ fields = c.load.dom.fields
          /\ forecastContainer = c.load.dom.forecastContainer
          /\ timers = c.load.timers
          /\ calls = [NoCalls EXCEPT ![0] = Len(c.load.timers)]
          /\ event = [type |-> "construct", id |-> 0, outcome |-> c.load.outcome,
                      city |-> c.load.city, errorWas |-> FALSE]
    /\ positions = {}
    /\ nextId = 1
    /\ settled = <<>>
    /\ overlap = FALSE
    /\ lastAction = NoAction

\* a request is pending: its timer or its position request is outstanding
InFlight == timers # <<>> \/ positions # {}

\* a user action: the listener on trigger runs handler r as action nextId
UserAction(trigger, type, r) ==
    /\ trigger \in listeners
    /\ nextId <= MaxActions
    /\ Handled(type, nextId, r)
    /\ positions' = positions \cup r.positions
    /\ nextId' = nextId + 1
    /\ overlap' = (overlap \/ (InFlight /\ (r.timers # <<>> \/ r.positions # {})))
    /\ lastAction' = [type |-> type, outcome |-> r.outcome, city |-> r.city]
    /\ UNCHANGED <<present, geolocation, app, listeners, settled>>

\* click on searchBtn with value in the input box
SearchClicked(value) ==
    UserAction("searchBtn", "search", searchWeather(Dom, nextId, value))

\* keypress of Enter in cityInput with value in the input box
EnterPressed(value) ==
    UserAction("cityInput", "search", searchWeather(Dom, nextId, value))

ClickSearch == \E value \in CityInputs : SearchClicked(value)

PressEnter == \E value \in CityInputs : EnterPressed(value)

\* click on locationBtn
ClickLocation ==
    UserAction("locationBtn", "locate", getCurrentLocation(Dom, nextId))

\* the platform calls the success callback of a position request
PositionSuccess ==
    \E id \in positions, pos \in Positions :
        /\ Handled("position", id, getWeatherByCoords(Dom, id, pos[1], pos[2]))
        /\ positions' = positions \ {id}
        /\ UNCHANGED <<present, geolocation, app, listeners, nextId, settled, overlap,
                       lastAction>>

\* the platform calls the error callback of a position request
PositionError ==
    \E id \in positions :
        LET r == positionError(Dom) IN
        /\ Handled("positionError", id, r)
        /\ positions' = positions \ {id}
        /\ settled' = Append(settled, [id |-> id, op |-> "position", outcome |-> r.outcome])
        /\ UNCHANGED <<present, geolocation, app, listeners, nextId, overlap,
                       lastAction>>

\* the oldest 1000 ms timer fires and the provider call that set it resumes;
\* all the timers have the same delay, so they fire in the order they were set
TimerFires ==
    /\ timers # <<>>
    /\ \E seed \in Seeds :
        LET t == Head(timers)
            r == IF t.op = "name"
                 THEN resumeGetWeatherData(Dom, t.city, seed)
                 ELSE resumeGetWeatherByCoords(Dom, t.lat, t.lon, seed)
        IN  /\ Commit(r.dom)
            /\ event' = [type |-> "settle", id |-> t.id, outcome |-> r.outcome,
                         city |-> t.city, errorWas |-> FALSE]
            /\ settled' = Append(settled, [id |-> t.id, op |-> t.op, outcome |-> r.outcome])
    /\ timers' = Tail(timers)
    /\ UNCHANGED <<present, geolocation, app, listeners, positions, nextId, calls,
                   overlap, lastAction>>

Next ==
    \/ ClickSearch
    \/ PressEnter
    \/ ClickLocation
    \/ PositionSuccess
    \/ PositionError
    \/ TimerFires

Spec == Init /\ [][Next]_vars

NextStartup == Construct \/ Next

SpecStartup == InitStartup /\ [][NextStartup]_vars

\* the step that takes the oldest timer off the queue; TimerFires is the only
\* action that has such steps, and it has one whenever a timer is pending
TimerDue == timers # <<>> /\ timers' = Tail(timers)

\* every timer that was set fires: setTimeout(resolve, 1000)
FairSpec == Spec /\ WF_timers(TimerDue)

\* the step that ends a position request by one of its callbacks;
\* PositionSuccess and PositionError are the only actions that have such
\* steps, and they have one whenever a position request is pending
PositionDue == \E id \in positions : positions' = positions \ {id}

\* every timer fires and every position request calls back
FairSpecCallbacks == Spec /\ WF_timers(TimerDue) /\ WF_positions(PositionDue)

\* the values Math.random() may return, as numerators over DrawDenom
ForecastDraws == 0..(DrawDenom - 1)

\* the startup load resumes with the 'new york' fixture, whose forecast was
\* generated with Math.random() returning rHigh / DrawDenom, then
\* rLow / DrawDenom, for the first entry, and for each later entry the next
\* value up of each (wrapping around)
LoadResumesDrawn ==
    /\ timers # <<>>
    /\ Head(timers).id = 0
    /\ \E rHigh \in ForecastDraws, rLow \in ForecastDraws :
        \E forecast \in { generateMockForecastFrom(
                              [n \in 1..Len(days) |->
                                  <<(rHigh + n - 1) % DrawDenom,
                                    (rLow + n - 1) % DrawDenom>>],
                              DrawDenom) } :
        \E r \in { fetchResumed(Dom,
                                [current |-> cities(0)[toLowerCase(NewYork)].current,
                                 forecast |-> forecast],
                                CityNotFound, NewYork) } :
            /\ Commit(r.dom)
            /\ event' = [type |-> "settle", id |-> 0, outcome |-> r.outcome,
                         city |-> NewYork, errorWas |-> FALSE]
            /\ settled' = Append(settled, [id |-> 0, op |-> "name", outcome |-> r.outcome])
    /\ timers' = Tail(timers)
    /\ UNCHANGED <<present, geolocation, app, listeners, positions, nextId, calls,
                   overlap, lastAction>>

\* the forecasts generateMockForecast can return, rendered by the startup load
SpecForecast == Init /\ [][LoadResumesDrawn]_vars

\* the state in which the startup load has rendered and a search for a
\* spelling of a fixture key has been clicked as action 1
InitLookup ==
    /\ present = RequiredElements
    /\ geolocation \in BOOLEAN
    /\ \E value \in LookupInputs, seed \in Seeds :
        \E c \in { constructor([hidden |-> {}, errorMessage |-> "", fields |-> NoFields,
                                forecastContainer |-> <<>>, threw |-> FALSE]) } :
        \E load \in { resumeGetWeatherData(c.load.dom, NewYork, seed) } :
        \E r \in { searchWeather(load.dom, 1, value) } :
           /\ app = c.app
           /\ listeners = c.listeners
           /\ hidden = r.dom.hidden
           /\ errorMessage = r.dom.errorMessage
           /\ fields = r.dom.fields
           /\ forecastContainer = r.dom.forecastContainer
           /\ timers = r.timers
           /\ calls = [NoCalls EXCEPT ![0] = Len(c.load.timers), ![1] = Len(r.timers)]
           /\ settled = <<[id |-> 0, op |-> "name", outcome |-> load.outcome]>>
           /\ event = [type |-> "search", id |-> 1, outcome |-> r.outcome,
                       city |-> r.city, errorWas |-> FALSE]
           /\ lastAction = [type |-> "search", outcome |-> r.outcome, city |-> r.city]
    /\ positions = {}
    /\ nextId = 2
    /\ overlap = FALSE

\* the fixture lookups: the searches of InitLookup run to their end
SpecLookup == InitLookup /\ [][TimerFires]_vars

\* ------------------------------------------------------------ what is seen
\* the Success content: the current-conditions and the forecast regions
SuccessShown == Visible("currentWeather") /\ Visible("forecast")
ContentShown == Visible("currentWeather") \/ Visible("forecast")
\* nothing of Success or Error is visible
AllHidden == ~ErrorShown /\ ~ContentShown

\* the request that completed last
LastSettled == settled[Len(settled)]
JustSettled == event.type = "settle" /\ settled # <<>>

\* the messages a failed request renders
RequestErrors == {NoPosition, CityNotFound, NoCoordsData}

\* value is empty or whitespace only
Blank(value) == \A i \in 1..Len(value) : value[i] \in WhiteSpace

\* a name the provider can resolve: not one found on the prototype chain
Resolvable(city) == toLowerCase(city) \notin InheritedKeys \ CityKeys

\* the text of #cityName a successful name search of city must produce
ExpectedLabel(city) ==
    IF toLowerCase(city) = toLowerCase(NewYork) THEN NewYork \o <<",", " ", "U", "S">>
    ELSE IF toLowerCase(city) = toLowerCase(London) THEN London \o <<",", " ", "U", "K">>
    ELSE IF toLowerCase(city) = toLowerCase(Tokyo) THEN Tokyo \o <<",", " ", "J", "P">>
    ELSE city \o <<",", " ">> \o Unknown

\* ------------------------------------------------------------------ claims

\* C1: in every reachable state the loading indicator is not visible together
\* with the error region or with the current-conditions or forecast region.
C1_LoadingExclusive == LoadingShown => (~ErrorShown /\ ~ContentShown)

\* C2: in the state right after a fetch has settled, exactly one of the
\* Success content and the error region is visible: not both, not neither.
C2_ExactlyOneAfterSettle ==
    JustSettled =>
        \/ SuccessShown /\ ~ErrorShown
        \/ ErrorShown /\ ~ContentShown

\* C3: a name request whose lower-cased name is not a fixture key never
\* fails: the provider returns a current-conditions record with a non-empty
\* description for it, and the request ends as a success with the Success
\* content shown, not as a caught failure.
C3_UnknownNeverFails ==
    (JustSettled /\ LastSettled.op = "name" /\ toLowerCase(event.city) \notin CityKeys) =>
        /\ \A seed \in Seeds :
              LET weatherData == simulateWeatherAPI(event.city, seed) IN
              /\ weatherData.current # Undefined
              /\ weatherData.current.description # ""
        /\ event.outcome = "success"
        /\ SuccessShown

\* C4: when the request of a search for a non-empty trimmed name completes,
\* the page renders a report whose city is the name as typed, or the
\* canonical name and country of the fixture the lower-cased name matches.
C4_RendersSearchedCity ==
    (JustSettled /\ LastSettled.op = "name") =>
        /\ Visible("currentWeather")
        /\ fields.cityName = ExpectedLabel(event.city)

\* C5: a search with an empty or whitespace-only input writes the validation
\* message into the shown error region, starts no provider call and does not
\* change the loading indicator, whatever the state it is made in.
C5_BlankSearchValidates ==
    [][\A value \in CityInputs :
          (Blank(value) /\ (SearchClicked(value) \/ EnterPressed(value))) =>
              /\ errorMessage' = EmptyInput
              /\ ErrorShown'
              /\ ~ContentShown'
              /\ timers' = timers
              /\ positions' = positions
              /\ calls' = calls
              /\ LoadingShown' = LoadingShown]_vars

\* C5 witness: a blank search was made while a request was pending
C5_Witness ==
    /\ event.type = "search"
    /\ event.outcome = "validation"
    /\ errorMessage = EmptyInput
    /\ ErrorShown
    /\ timers # <<>>

\* C6: once two overlapping requests have both settled, the page shows the
\* outcome of the one that completed last and nothing of the earlier one.
C6_LastCompletionWins ==
    (overlap /\ ~InFlight /\ Len(settled) >= 2) =>
        /\ LastSettled.outcome = "success" =>
              /\ SuccessShown
              /\ ~(ErrorShown /\ errorMessage \in RequestErrors)
        /\ LastSettled.outcome = "error" =>
              /\ ErrorShown
              /\ ~ContentShown
              /\ errorMessage =
                    (IF LastSettled.op = "name" THEN CityNotFound
                     ELSE IF LastSettled.op = "coords" THEN NoCoordsData
                     ELSE NoPosition)

\* C7: a step that triggers Loading leaves the error, current-conditions and
\* forecast regions hidden, and while a request is pending no step other than
\* a settlement (a fetch or a position request ending) shows any of them.
C7_HiddenUntilSettlement ==
    [][/\ (event' # event /\ event'.outcome = "started") => AllHidden'
       /\ (InFlight /\ AllHidden /\ ~(TimerFires \/ PositionError)) => AllHidden']_vars

\* C8: a page that lacks any required element makes construction abort: the
\* widget is not constructed, it has attached no listener and no fetch is
\* started.
C8_AbortsIfAnyMissing ==
    (event.type = "construct" /\ present # RequiredElements) =>
        /\ app = "aborted"
        /\ listeners = {}
        /\ timers = <<>>
        /\ calls[0] = 0

\* C8 as amended: construction aborts, with no fetch started, exactly when
\* searchBtn, cityInput or locationBtn is absent, and then no listener is
\* attached only if searchBtn is the absent one.  Otherwise the widget is
\* constructed with its three listeners, and the startup fetch is started
\* exactly when loading, error, currentWeather and forecast are present.
C8_AbortsIfControlMissing ==
    event.type = "construct" =>
        /\ app = "aborted" <=> ~({"searchBtn", "cityInput", "locationBtn"} \subseteq present)
        /\ app = "aborted" => (timers = <<>> /\ calls[0] = 0)
        /\ listeners = {} <=> "searchBtn" \notin present
        /\ app = "constructed" =>
              /\ listeners = {"searchBtn", "cityInput", "locationBtn"}
              /\ (timers # <<>> /\ calls[0] = 1) <=> (Regions \subseteq present)

\* C8 witness: construction aborted with the searchBtn listener attached
C8_Witness ==
    /\ event.type = "construct"
    /\ app = "aborted"
    /\ "cityInput" \notin present
    /\ listeners = {"searchBtn"}

\* C9: a search for a resolvable non-blank name made while the error region
\* is shown leaves the loading indicator on, the error region hidden and its
\* provider call pending, and is followed by the state in which that request
\* has just rendered the report of that city.
C9_UsableAfterError ==
    \A id \in 1..MaxActions :
        [](( /\ event.type = "search"
             /\ event.id = id
             /\ event.errorWas
             /\ event.city # <<>>
             /\ Resolvable(event.city) ) =>
            ( /\ LoadingShown
              /\ ~ErrorShown
              /\ timers # <<>>
              /\ timers[Len(timers)].id = id
              /\ timers[Len(timers)].city = event.city
              /\ <>( /\ JustSettled
                     /\ event.id = id
                     /\ event.outcome = "success"
                     /\ SuccessShown
                     /\ ~LoadingShown
                     /\ fields.cityName = ExpectedLabel(event.city) ) ))

\* C9 witness: a request failed and showed its error, and the search made
\* after it has hidden the error and rendered its report
C9_Witness ==
    /\ Len(settled) = 3
    /\ settled[2].outcome = "error"
    /\ settled[3].outcome = "success"
    /\ settled[3].id > settled[2].id
    /\ settled[3].op = "name"
    /\ JustSettled
    /\ SuccessShown
    /\ ~ErrorShown
    /\ fields.cityName = ExpectedLabel(event.city)

\* the elements the error path of a fetch writes
ErrorPath == Regions \cup {"errorMessage"}

\* C10: on a page that has the elements the error path writes, a fetch that
\* fails ends caught, with the message of its operation in the shown error
\* region and the loading indicator hidden; no action ever starts more than
\* one provider call (nothing is retried).
C10_FailureCaughtOnce ==
    /\ \A id \in 0..MaxActions : calls[id] <= 1
    /\ (JustSettled /\ ErrorPath \subseteq present) =>
          /\ event.outcome \in {"success", "error"}
          /\ event.outcome = "error" =>
                /\ ~LoadingShown
                /\ ErrorShown
                /\ ~ContentShown
                /\ errorMessage =
                      (IF LastSettled.op = "name" THEN CityNotFound ELSE NoCoordsData)

\* C10 witness: a name request and then a coordinate request have failed
C10_Witness ==
    /\ JustSettled
    /\ LastSettled.op = "coords"
    /\ event.outcome = "error"
    /\ errorMessage = NoCoordsData
    /\ \E n \in 1..Len(settled) : settled[n].op = "name" /\ settled[n].outcome = "error"

\* C11: without the geolocation capability a click on Locate writes the
\* capability message into the shown error region, and makes no position
\* request, starts no provider call and leaves the loading indicator as it was.
C11_NoCapabilityNoRequest ==
    [][(~geolocation /\ ClickLocation) =>
          /\ errorMessage' = NoGeolocation
          /\ ErrorShown'
          /\ ~ContentShown'
          /\ positions' = positions
          /\ timers' = timers
          /\ calls' = calls
          /\ LoadingShown' = LoadingShown]_vars

\* C11 witness: Locate was clicked without the capability after the startup
\* load had rendered
C11_Witness ==
    /\ ~geolocation
    /\ event.type = "locate"
    /\ event.outcome = "unsupported"
    /\ errorMessage = NoGeolocation
    /\ ErrorShown
    /\ ~LoadingShown
    /\ settled # <<>>

\* C12: when the position request of a locate action fails, the location
\* message is in the shown error region and the loading indicator is hidden,
\* and no provider call is ever started for that action.
C12_PositionFailure ==
    /\ event.type = "positionError" =>
          /\ errorMessage = NoPosition
          /\ ErrorShown
          /\ ~ContentShown
          /\ ~LoadingShown
    /\ \A n \in 1..Len(settled) :
          settled[n].op = "position" =>
              /\ calls[settled[n].id] = 0
              /\ \A k \in 1..Len(timers) : timers[k].id # settled[n].id

\* C12 witness: a position request has just failed
C12_Witness ==
    /\ event.type = "positionError"
    /\ settled # <<>>
    /\ LastSettled.op = "position"
    /\ errorMessage = NoPosition
    /\ ~LoadingShown

\* C13: a click on Locate with the capability turns Loading on; when its
\* position request succeeds, with whatever coordinates, Loading is on and the
\* provider call is queued, and (every timer firing) that call eventually
\* renders a report whose city label is exactly 'Your Location', with no
\* separator and no country after it.
C13_LocateRendersYourLocation ==
    \A id \in 1..MaxActions :
        []( /\ ( event.type = "locate" /\ event.id = id /\ event.outcome = "started" ) =>
                 ( LoadingShown /\ id \in positions )
            /\ ( event.type = "position" /\ event.id = id /\ event.outcome = "started" ) =>
                 ( /\ LoadingShown
                   /\ AllHidden
                   /\ timers # <<>>
                   /\ timers[Len(timers)].id = id
                   /\ timers[Len(timers)].op = "coords"
                   /\ <>( /\ JustSettled
                          /\ event.id = id
                          /\ event.outcome = "success"
                          /\ LastSettled.op = "coords"
                          /\ SuccessShown
                          /\ ~LoadingShown
                          /\ fields.cityName = YourLocation ) ) )

\* C13 witness: the report of a located position has just been rendered
C13_Witness ==
    /\ JustSettled
    /\ LastSettled.op = "coords"
    /\ event.outcome = "success"
    /\ fields.cityName = YourLocation
    /\ SuccessShown

\* C14: a search for any spelling of a fixture key, whatever the case of its
\* letters, renders that fixture's current-conditions record (London:
\* temperature 15, 'light rain', country 'UK') and never a synthesized
\* record (country 'Unknown').
C14_FixtureLookupIgnoresCase ==
    (JustSettled /\ event.id = 1) =>
        /\ event.outcome = "success"
        /\ event.city \in CaseVariants(<<"l", "o", "n", "d", "o", "n">>) =>
              /\ fields.cityName = London \o <<",", " ", "U", "K">>
              /\ fields.currentTemp = <<15, "C">>
              /\ fields.feelsLike = <<13, "C">>
              /\ fields.weatherDescription = "light rain"
              /\ fields.humidity = <<80, "%">>
        /\ event.city \in CaseVariants(<<"t", "o", "k", "y", "o">>) =>
              /\ fields.cityName = Tokyo \o <<",", " ", "J", "P">>
              /\ fields.currentTemp = <<28, "C">>
              /\ fields.feelsLike = <<32, "C">>
              /\ fields.weatherDescription = "sunny"
              /\ fields.humidity = <<55, "%">>
        /\ event.city \in CaseVariants(<<"n", "e", "w", " ", "y", "o", "r", "k">>) =>
              /\ fields.cityName = NewYork \o <<",", " ", "U", "S">>
              /\ fields.currentTemp = <<22, "C">>
              /\ fields.feelsLike = <<25, "C">>
              /\ fields.weatherDescription = "partly cloudy"
              /\ fields.humidity = <<65, "%">>

\* C14 witness: the search for 'loNDon' has rendered the London fixture
C14_Witness ==
    /\ JustSettled
    /\ event.id = 1
    /\ event.city = <<"l", "o", "N", "D", "o", "n">>
    /\ fields.cityName = London \o <<",", " ", "U", "K">>
    /\ fields.currentTemp = <<15, "C">>

\* C15: whenever a forecast has been rendered, by a fixture, a synthesized or
\* a coordinate report, the forecast container holds exactly 5 entries whose
\* day labels are, in order, Today, Tomorrow, Day 3, Day 4, Day 5.
C15_FiveDaysInOrder ==
    (Visible("forecast") \/ forecastContainer # <<>>) =>
        /\ Len(forecastContainer) = 5
        /\ [n \in 1..5 |-> forecastContainer[n].day] =
               <<"Today", "Tomorrow", "Day 3", "Day 4", "Day 5">>

\* C15 witness: a fixture, a synthesized and a coordinate report have been
\* rendered, the last one just now
C15_Witness ==
    /\ JustSettled
    /\ event.outcome = "success"
    /\ Visible("forecast")
    /\ Len(forecastContainer) = 5
    /\ Len(settled) = 3
    /\ \A n \in 1..3 : settled[n].outcome = "success"
    /\ \E n \in 1..3 : settled[n].op = "coords"
    /\ fields.cityName = <<"P", "a", "r", "i", "s">> \o <<",", " ">> \o Unknown

\* C16: a step that renders a report leaves in the forecast container exactly
\* the 5 entries of that report's forecast, nothing of what it held before,
\* and every other step leaves the container as it was; so it never holds
\* more than 5 entries.
C16_ForecastReplaced ==
    [][ /\ Len(forecastContainer') <= 5
        /\ IF JustSettled' /\ event'.outcome = "success"
           THEN \E report \in { IF LastSettled'.op = "name"
                                  THEN simulateWeatherAPI(event'.city, seed)
                                  ELSE simulateWeatherAPIByCoords(0, 0, seed) :
                                  seed \in Seeds } :
                   /\ Len(forecastContainer') = 5
                   /\ \A n \in 1..5 :
                          forecastContainer'[n] = forecastItem(report.forecast[n])
           ELSE forecastContainer' = forecastContainer ]_vars

\* C16 witness: a report has just been rendered over the entries of an
\* earlier, different one
C16_Witness ==
    /\ JustSettled
    /\ event.outcome = "success"
    /\ Len(settled) >= 2
    /\ settled[Len(settled) - 1].outcome = "success"
    /\ settled[Len(settled) - 1].op # LastSettled.op
    /\ Len(forecastContainer) = 5

\* what the page shows when it shows the result of the user action
\* triggered last
ShowsLastAction ==
    CASE lastAction.outcome = "validation" ->
            ErrorShown /\ errorMessage = EmptyInput
      [] lastAction.outcome = "unsupported" ->
            ErrorShown /\ errorMessage = NoGeolocation
      [] lastAction.outcome = "started" /\ lastAction.type = "search" ->
            IF Resolvable(lastAction.city)
            THEN Visible("currentWeather")
                 /\ fields.cityName = ExpectedLabel(lastAction.city)
            ELSE ErrorShown /\ errorMessage = CityNotFound
      [] lastAction.outcome = "started" /\ lastAction.type = "locate" ->
            \/ Visible("currentWeather") /\ fields.cityName = YourLocation
            \/ ErrorShown /\ errorMessage = NoPosition
      [] OTHER -> TRUE

\* C17: whenever a request is in flight, a provider call waiting for its timer
\* or a position request waiting for its callback, the loading indicator is
\* visible.
C17_LoadingWhilePending ==
    InFlight => LoadingShown

\* C18: once every request has settled, the page shows the result of the user
\* action that was triggered last: after a click on Locate followed by a
\* search by name, not the 'Your Location' report.
C18_LastActionShown ==
    (~InFlight /\ lastAction.type # "none") => ShowsLastAction

\* C19: every timer firing and every position request calling back, a state
\* with a request pending or the loading indicator on leads to a state with
\* no request pending and the loading indicator hidden.
C19_LoadingEnds ==
    (InFlight \/ LoadingShown) ~> (~InFlight /\ ~LoadingShown)

\* C19 witness: nothing is pending and the loading indicator is hidden after
\* overlapping requests, one of them by position, have all settled
C19_Witness ==
    /\ ~InFlight
    /\ ~LoadingShown
    /\ overlap
    /\ Len(settled) >= 3
    /\ \E n \in 1..Len(settled) : settled[n].op = "coords"

\* C20: every entry of a generated forecast has an integer high in 20..34 and
\* an integer low in 10..19, so its low is below its high, whatever
\* Math.random() returned.
C20_HighLowRanges ==
    \A n \in 1..Len(forecastContainer) :
        /\ forecastContainer[n].high \in 20..34
        /\ forecastContainer[n].low \in 10..19
        /\ forecastContainer[n].low < forecastContainer[n].high

\* C20 witness: a rendered forecast has an entry with the least high and the
\* greatest low, and an entry with the greatest high
C20_Witness ==
    /\ JustSettled
    /\ \E n \in 1..Len(forecastContainer) :
          forecastContainer[n].high = 20 /\ forecastContainer[n].low = 19
    /\ \E n \in 1..Len(forecastContainer) : forecastContainer[n].high = 34

====
